---- MODULE Spec2Model ----
(***************************************************************************)
(* A model of asyncgui_ext.synctools.queue.Queue: the closable, bounded,   *)
(* multi-order producer/consumer queue, its waiter lists, its transfer     *)
(* pass (_transfer_items) and the synchronous, re-entrant resumption of    *)
(* waiters.                                                                *)
(*                                                                         *)
(* Resuming a waiter runs the resumed task's code before the resuming      *)
(* loop goes on, so the running calls are kept on a stack of frames: a     *)
(* frame is a transfer pass, a close()/half_close() loop, or the code of a *)
(* resumed task.  A step of the model is everything a handler does up to   *)
(* the next callback it invokes.                                           *)
(*                                                                         *)
(* asyncgui.ExclusiveEvent is the scheduler's side: wait() attaches the    *)
(* task's step function as _callback, and the callback is detached again   *)
(* as soon as the task is resumed or cancelled.  A resumed task is taken   *)
(* to handle what it is resumed with: a callback returns normally.         *)
(***************************************************************************)
EXTENDS Integers, Sequences, FiniteSets, TLC

\* ------------------------------------------------------------- bounds
\* capacities 1..MaxCap, and unbounded
MaxCap == 2
\* items are 1..MaxItem
MaxItem == 1
\* waiters registered in one behaviour of the free client
MaxEvents == 3
\* items an unbounded buffer is filled with by the free client
MaxBuf == 2

\* capacity=None: no bound
NoCap == 0

Capacities == (1..MaxCap) \cup {NoCap}
Orders == {"fifo", "lifo", "small-first"}

VARIABLES
    capacity,         \* Queue._capacity
    order,            \* Queue._order
    state,            \* Queue._state
    c,                \* Queue._c, the buffer
    putters,          \* Queue._putters: <<[ev, item]>>
    getters,          \* Queue._getters: <<ev>>
    is_transferring,  \* Queue._is_transferring
    evt,              \* the ExclusiveEvents made so far: [kind, task, out, item, n]
    stack,            \* the calls in progress, innermost last
    last,             \* what the last step did: the call made or returned from
    scen,             \* the client: "free", or the name of a scripted scenario
    prog,             \* scripted tasks: each task's operations
    startorder,       \* scripted tasks: the order in which they are started
    nstarted,         \* scripted tasks: how many were started
    pc,               \* scripted tasks: index of each task's next operation
    log,              \* scripted tasks: the items got, in the order logged
    ins               \* (where kept) the items in the buffer, as inserted

vars == <<capacity, order, state, c, putters, getters, is_transferring,
          evt, stack, last, scen, prog, startorder, nstarted, pc, log, ins>>

\* the items the free client puts; two different ones where a claim is about
\* which item a call delivers
MaxHandoffItem == 2
Items == IF scen \in {"handoff", "slot"} THEN 1..MaxHandoffItem ELSE 1..MaxItem

\* ----------------------------------------------------- the container
\* (a changed _init_container: a fifo queue on a list, as a lifo queue)
ContainerKindNoDeque(cap, ord) ==
    IF cap = 1 \/ ord \in {"lifo", "fifo"} THEN "list" ELSE "heap"

\* _init_container: which container and accessors the queue uses.
ContainerKind(cap, ord) ==
    IF cap = 1 \/ ord = "lifo" THEN "list"
    ELSE IF ord = "fifo" THEN "deque"
    ELSE IF ord = "small-first" THEN "heap"
    ELSE "ValueError"

Swap(s, i, j) == [s EXCEPT ![i] = s[j], ![j] = s[i]]

\* heapq._siftdown(heap, startpos, pos), on 1-based positions.
RECURSIVE SiftDown(_, _, _)
SiftDown(h, startpos, pos) ==
    IF pos > startpos /\ h[pos] < h[pos \div 2]
    THEN SiftDown(Swap(h, pos, pos \div 2), startpos, pos \div 2)
    ELSE h

\* heapq._siftup(heap, pos): the hole moves down to a leaf along the smaller
\* children, then the item is sifted back up.
RECURSIVE SiftUpLeaf(_, _)
SiftUpLeaf(h, pos) ==
    LET l == 2 * pos
        r == 2 * pos + 1
        child == IF r <= Len(h) /\ ~(h[l] < h[r]) THEN r ELSE l
    IN IF l <= Len(h) THEN SiftUpLeaf(Swap(h, pos, child), child)
       ELSE SiftDown(h, 1, pos)

\* (a changed heappush: the item is appended and not sifted)
HeapPushNoSift(h, x) == Append(h, x)

\* heapq.heappush(heap, item), heapq.heappop(heap)
HeapPush(h, x) == SiftDown(Append(h, x), 1, Len(h) + 1)

HeapPopRest(h) ==
    IF Len(h) = 1 THEN <<>>
    ELSE SiftUpLeaf([SubSeq(h, 1, Len(h) - 1) EXCEPT ![1] = h[Len(h)]], 1)

\* The three containers of _init_container and their accessors: "list" with
\* append / pop, "deque" (with maxlen = capacity) with append / popleft,
\* "heap" with heappush / heappop.
ContainerPut(kind, cap, cc, x) ==
    IF kind = "list" THEN Append(cc, x)
    ELSE IF kind = "deque"
    THEN IF cap # NoCap /\ Len(cc) = cap
         THEN Append(Tail(cc), x)       \* deque(maxlen): the oldest falls out
         ELSE Append(cc, x)
    ELSE HeapPush(cc, x)

ContainerGetItem(kind, cc) == IF kind = "list" THEN cc[Len(cc)] ELSE cc[1]

ContainerGetRest(kind, cc) ==
    IF kind = "list" THEN SubSeq(cc, 1, Len(cc) - 1)
    ELSE IF kind = "deque" THEN Tail(cc)
    ELSE HeapPopRest(cc)

\* self._c_put(item)
C_put(cc, x) == ContainerPut(ContainerKind(capacity, order), capacity, cc, x)

\* self._c_get(): the item returned ...
C_get_item(cc) == ContainerGetItem(ContainerKind(capacity, order), cc)

\* ... and the container it leaves.
C_get_rest(cc) == ContainerGetRest(ContainerKind(capacity, order), cc)

\* ------------------------------------------------------ state records
\* The mutable state as one record, so that an operation is a function on it.
Cur == [state |-> state, c |-> c, putters |-> putters, getters |-> getters,
        is_transferring |-> is_transferring, evt |-> evt, stack |-> stack,
        last |-> last, pc |-> pc, log |-> log]

SetQueue(q) ==
    /\ state' = q.state
    /\ c' = q.c
    /\ putters' = q.putters
    /\ getters' = q.getters
    /\ is_transferring' = q.is_transferring
    /\ evt' = q.evt
    /\ stack' = q.stack
    /\ last' = [q.last EXCEPT !.same = (q.c = c /\ q.putters = putters
                                         /\ q.getters = getters /\ q.state = state)]
    /\ pc' = q.pc
    /\ log' = q.log
    /\ UNCHANGED <<capacity, order, scen, prog, startorder>>

Set(q) == SetQueue(q) /\ UNCHANGED <<nstarted, ins>>

\* (a changed is_full: full one item late)
is_full_late(q) == capacity # NoCap /\ Len(q.c) = capacity + 1

\* Queue.is_empty, Queue.is_full
is_empty(q) == q.c = <<>>
is_full(q) == capacity # NoCap /\ Len(q.c) = capacity

\* event._callback is not None: a task waits on the event.
HasCallback(q, e) == q.evt[e].out = "pending"

\* What the last step did, as its caller sees it.  ph: "call" (an operation
\* was called), "return" (a call in progress returned) or "step" (a loop in
\* progress took a turn).  For a call: the result, and the queue as it was
\* when called (st0, emp0, full0, tr0).  For close()/half_close(), at the
\* call and at the return: the waiters that were pending when it was called
\* (pend), whether the buffer was empty then (emp0), and at the return the
\* waiters it resumed itself (fired).  same: the step left the buffer, both
\* waiter lists and the state as they were.  item: the item that the call
\* took from the buffer (get, get_nowait) or placed in it (put, put_nowait);
\* 0: none.
Label(ph, op, res, st0, emp0, full0, tr0, pend, fired) ==
    [ph |-> ph, op |-> op, res |-> res, st0 |-> st0, emp0 |-> emp0,
     full0 |-> full0, tr0 |-> tr0, pend |-> pend, fired |-> fired, same |-> TRUE,
     item |-> 0]
Step == Label("step", "", "", "", FALSE, FALSE, FALSE, {}, {})

\* A call in progress.  k: "transfer", "close", "half_close", or "task" (the
\* code of a resumed or started task).  pc and i: where its loop is; dirty:
\* the deque its for-loop iterates was mutated; op, ret, t: the operation to
\* return from, the item it returns (for a put: the item put) and the task
\* that called it.  For a pass, as the queue was when the operation was
\* called: emp0, full0, and in pend the earliest waiter with a callback of
\* the side the operation serves (consumers for a put, producers for a get).
Fr(k, p, i, op, ret, t, pend, emp0) ==
    [k |-> k, pc |-> p, i |-> i, dirty |-> FALSE, op |-> op, ret |-> ret,
     t |-> t, pend |-> pend, emp0 |-> emp0, full0 |-> FALSE, fired |-> {}]
TaskFrame(t) == Fr("task", "", 0, "", 0, t, {}, FALSE)
TransferFrame(op, ret, t) == Fr("transfer", "put", 0, op, ret, t, {}, FALSE)

Top(q) == q.stack[Len(q.stack)]
Pop(s) == SubSeq(s, 1, Len(s) - 1)
Pending(q) == {e \in 1..Len(q.evt) : HasCallback(q, e)}

\* The label of a call of op made in q, with result res.
Call(q, op, res) ==
    Label("call", op, res, q.state, is_empty(q), is_full(q), q.is_transferring,
          IF res = "running" /\ op \in {"close", "half_close"} THEN Pending(q) ELSE {}, {})

\* A deque raises RuntimeError in an iterator of it that is advanced after the
\* deque was mutated: every for-loop over `which` in progress is marked.
MarkDirty(s, which) ==
    [n \in 1..Len(s) |->
        IF s[n].k \in {"close", "half_close"} /\ s[n].pc = which
        THEN [s[n] EXCEPT !.dirty = TRUE] ELSE s[n]]

\* --------------------------------------------------- scripted callers
\* Task 0 is the free client.  A scripted task t > 0 goes on to its next
\* operation when one completes, and logs the item a get() returned.  Its
\* operation "iter" is `async for item in queue` (Queue.__aiter__): get() again
\* and again, each item logged, until get() raises Closed, which ends the loop.
\* pc[t] = ProgEnd(t): the task has ended normally; ProgEnd(t) + 1: an
\* exception has ended it.
ProgEnd(t) == Len(prog[t]) + 1
Iterating(q, t) ==
    IF q.pc[t] <= Len(prog[t]) THEN prog[t][q.pc[t]].op = "iter" ELSE FALSE

Advance(q, t, op, item) ==
    IF t = 0 THEN q
    ELSE [q EXCEPT !.pc[t] = IF Iterating(q, t) THEN @ ELSE @ + 1,
                   !.log = IF op \in {"get", "get_nowait"} THEN Append(@, item) ELSE @]

\* An exception that nothing catches ends a scripted task.
Failed(q, t) ==
    IF t = 0 THEN q ELSE [q EXCEPT !.pc[t] = ProgEnd(t) + 1]

\* Closed, WouldBlock or RuntimeError is raised in the task: it ends a scripted
\* task, unless the task is in `async for` (where get() raised Closed): then
\* the loop ends and the task goes on.
Raised(q, t) ==
    IF t = 0 THEN q
    ELSE IF Iterating(q, t) THEN [q EXCEPT !.pc[t] = @ + 1]
    ELSE Failed(q, t)

\* `await event.wait()`: the scripted task is suspended, and control is back
\* in whoever started or resumed it.
Suspended(q, t) ==
    IF t = 0 THEN q ELSE [q EXCEPT !.stack = Pop(@)]

\* The callback of event e is invoked: the task is detached from the event
\* and its code runs.  (n counts the invocations.)
Resume(q, e, res, item) ==
    LET t == q.evt[e].task
        q1 == [q EXCEPT !.evt[e].out = res, !.evt[e].item = item, !.evt[e].n = @ + 1,
                        !.stack = Append(@, TaskFrame(t))]
    IN IF res = "closed" THEN Raised(q1, t)
       ELSE Advance(q1, t, q.evt[e].kind, item)

\* ------------------------------------------------------ Queue methods
\* The side whose waiters an operation serves, and the earliest waiter of a
\* side that has a callback (as a set: empty if there is none).
Served(op) == IF op \in {"put", "put_nowait"} THEN "get" ELSE "put"
Earliest(q, kind) ==
    LET live == {e \in Pending(q) : q.evt[e].kind = kind}
    IN {e \in live : \A d \in live : e <= d}

\* _transfer_items, from its entry to the head of its loop.
\* (q0: the queue when op was called.)
EnterTransfer(q0, q, op, ret, t) ==
    IF q.is_transferring
    THEN [Failed(q, t) EXCEPT !.last = Call(q0, op, "AssertionError")]
    ELSE [q EXCEPT !.is_transferring = TRUE,
                   !.stack = Append(@, [TransferFrame(op, ret, t) EXCEPT
                                           !.pend = Earliest(q0, Served(op)),
                                           !.emp0 = is_empty(q0),
                                           !.full0 = is_full(q0)]),
                   !.last = [Call(q0, op, "running") EXCEPT !.item = ret]]

NewEvent(q, kind, t) ==
    [q EXCEPT !.evt = Append(@, [kind |-> kind, task |-> t, out |-> "pending", item |-> 0,
                                 n |-> 0])]

\* (a changed get: the fast path returns the item without a transfer pass)
get_no_transfer(q, t) ==
    IF q.state = "CLOSED" THEN [Raised(q, t) EXCEPT !.last = Call(q, "get", "Closed")]
    ELSE IF q.state = "HALF_CLOSED" /\ is_empty(q)
    THEN [Raised(q, t) EXCEPT !.last = Call(q, "get", "Closed")]
    ELSE IF q.is_transferring \/ is_empty(q)
    THEN LET q1 == NewEvent(q, "get", t)
             q2 == [q1 EXCEPT !.getters = Append(@, Len(q1.evt)),
                              !.stack = MarkDirty(@, "getters"),
                              !.last = Call(q, "get", "suspended")]
         IN Suspended(q2, t)
    ELSE LET item == C_get_item(q.c)
             q1 == [q EXCEPT !.c = C_get_rest(@)]
         IN [Advance(q1, t, "get", item) EXCEPT !.last = Call(q, "get", "ok")]

\* Queue.get
get(q, t) ==
    IF q.state = "CLOSED" THEN [Raised(q, t) EXCEPT !.last = Call(q, "get", "Closed")]
    ELSE IF q.state = "HALF_CLOSED" /\ is_empty(q)
    THEN [Raised(q, t) EXCEPT !.last = Call(q, "get", "Closed")]
    ELSE IF q.is_transferring \/ is_empty(q)
    THEN LET q1 == NewEvent(q, "get", t)
             q2 == [q1 EXCEPT !.getters = Append(@, Len(q1.evt)),
                              !.stack = MarkDirty(@, "getters"),
                              !.last = Call(q, "get", "suspended")]
         IN Suspended(q2, t)
    ELSE LET item == C_get_item(q.c)
             q1 == [q EXCEPT !.c = C_get_rest(@)]
         IN IF q1.putters # <<>>
            THEN EnterTransfer(q, q1, "get", item, t)
            ELSE [Advance(q1, t, "get", item)
                    EXCEPT !.last = [Call(q, "get", "ok") EXCEPT !.item = item]]

\* (a changed get_nowait: an empty buffer is tested before the state)
get_nowait_empty_first(q, t) ==
    IF is_empty(q) /\ q.state # "CLOSED"
    THEN [Raised(q, t) EXCEPT !.last = Call(q, "get_nowait", "WouldBlock")]
    ELSE IF q.state = "CLOSED" THEN [Raised(q, t) EXCEPT !.last = Call(q, "get_nowait", "Closed")]
    ELSE LET item == C_get_item(q.c)
             q1 == [q EXCEPT !.c = C_get_rest(@)]
         IN IF (~q1.is_transferring) /\ q1.putters # <<>>
            THEN EnterTransfer(q, q1, "get_nowait", item, t)
            ELSE [Advance(q1, t, "get_nowait", item)
                    EXCEPT !.last = Call(q, "get_nowait", "ok")]

\* (a changed get_nowait: a pass is started whether or not one is in progress)
get_nowait_unguarded(q, t) ==
    IF q.state = "CLOSED" THEN [Raised(q, t) EXCEPT !.last = Call(q, "get_nowait", "Closed")]
    ELSE IF is_empty(q)
    THEN IF q.state = "HALF_CLOSED"
         THEN [Raised(q, t) EXCEPT !.last = Call(q, "get_nowait", "Closed")]
         ELSE [Raised(q, t) EXCEPT !.last = Call(q, "get_nowait", "WouldBlock")]
    ELSE LET item == C_get_item(q.c)
             q1 == [q EXCEPT !.c = C_get_rest(@)]
         IN IF q1.putters # <<>>
            THEN EnterTransfer(q, q1, "get_nowait", item, t)
            ELSE [Advance(q1, t, "get_nowait", item)
                    EXCEPT !.last = Call(q, "get_nowait", "ok")]

\* Queue.get_nowait
get_nowait(q, t) ==
    IF q.state = "CLOSED" THEN [Raised(q, t) EXCEPT !.last = Call(q, "get_nowait", "Closed")]
    ELSE IF is_empty(q)
    THEN IF q.state = "HALF_CLOSED"
         THEN [Raised(q, t) EXCEPT !.last = Call(q, "get_nowait", "Closed")]
         ELSE [Raised(q, t) EXCEPT !.last = Call(q, "get_nowait", "WouldBlock")]
    ELSE LET item == C_get_item(q.c)
             q1 == [q EXCEPT !.c = C_get_rest(@)]
         IN IF (~q1.is_transferring) /\ q1.putters # <<>>
            THEN EnterTransfer(q, q1, "get_nowait", item, t)
            ELSE [Advance(q1, t, "get_nowait", item)
                    EXCEPT !.last = [Call(q, "get_nowait", "ok") EXCEPT !.item = item]]

\* (a changed put: a full buffer is not tested)
put_unchecked(q, t, item) ==
    IF q.state # "OPENED" THEN [Raised(q, t) EXCEPT !.last = Call(q, "put", "Closed")]
    ELSE IF q.is_transferring
    THEN LET q1 == NewEvent(q, "put", t)
             q2 == [q1 EXCEPT !.putters = Append(@, [ev |-> Len(q1.evt), item |-> item]),
                              !.stack = MarkDirty(@, "putters"),
                              !.last = Call(q, "put", "suspended")]
         IN Suspended(q2, t)
    ELSE LET q1 == [q EXCEPT !.c = C_put(@, item)]
         IN IF q1.getters # <<>>
            THEN EnterTransfer(q, q1, "put", item, t)
            ELSE [Advance(q1, t, "put", item) EXCEPT !.last = Call(q, "put", "ok")]

\* Queue.put
put(q, t, item) ==
    IF q.state # "OPENED" THEN [Raised(q, t) EXCEPT !.last = Call(q, "put", "Closed")]
    ELSE IF q.is_transferring \/ is_full(q)
    THEN LET q1 == NewEvent(q, "put", t)
             q2 == [q1 EXCEPT !.putters = Append(@, [ev |-> Len(q1.evt), item |-> item]),
                              !.stack = MarkDirty(@, "putters"),
                              !.last = Call(q, "put", "suspended")]
         IN Suspended(q2, t)
    ELSE LET q1 == [q EXCEPT !.c = C_put(@, item)]
         IN IF q1.getters # <<>>
            THEN EnterTransfer(q, q1, "put", item, t)
            ELSE [Advance(q1, t, "put", item)
                    EXCEPT !.last = [Call(q, "put", "ok") EXCEPT !.item = item]]

\* (a changed put_nowait: WouldBlock also while a transfer pass is in
\* progress, as put() suspends then)
put_nowait_strict(q, t, item) ==
    IF q.state # "OPENED"
    THEN [Raised(q, t) EXCEPT !.last = Call(q, "put_nowait", "Closed")]
    ELSE IF q.is_transferring \/ is_full(q)
    THEN [Raised(q, t) EXCEPT !.last = Call(q, "put_nowait", "WouldBlock")]
    ELSE LET q1 == [q EXCEPT !.c = C_put(@, item)]
         IN IF q1.getters # <<>>
            THEN EnterTransfer(q, q1, "put_nowait", item, t)
            ELSE [Advance(q1, t, "put_nowait", item)
                    EXCEPT !.last = Call(q, "put_nowait", "ok")]

\* (a changed put_nowait: a full buffer is not tested)
put_nowait_unchecked(q, t, item) ==
    IF q.state # "OPENED"
    THEN [Raised(q, t) EXCEPT !.last = Call(q, "put_nowait", "Closed")]
    ELSE LET q1 == [q EXCEPT !.c = C_put(@, item)]
         IN IF (~q1.is_transferring) /\ q1.getters # <<>>
            THEN EnterTransfer(q, q1, "put_nowait", item, t)
            ELSE [Advance(q1, t, "put_nowait", item)
                    EXCEPT !.last = Call(q, "put_nowait", "ok")]

\* (a changed put_nowait: no transfer pass is started)
put_nowait_no_transfer(q, t, item) ==
    IF q.state # "OPENED"
    THEN [Raised(q, t) EXCEPT !.last = Call(q, "put_nowait", "Closed")]
    ELSE IF is_full(q)
    THEN [Raised(q, t) EXCEPT !.last = Call(q, "put_nowait", "WouldBlock")]
    ELSE [Advance([q EXCEPT !.c = C_put(@, item)], t, "put_nowait", item)
            EXCEPT !.last = Call(q, "put_nowait", "ok")]

\* Queue.put_nowait
put_nowait(q, t, item) ==
    IF q.state # "OPENED"
    THEN [Raised(q, t) EXCEPT !.last = Call(q, "put_nowait", "Closed")]
    ELSE IF is_full(q)
    THEN [Raised(q, t) EXCEPT !.last = Call(q, "put_nowait", "WouldBlock")]
    ELSE LET q1 == [q EXCEPT !.c = C_put(@, item)]
         IN IF (~q1.is_transferring) /\ q1.getters # <<>>
            THEN EnterTransfer(q, q1, "put_nowait", item, t)
            ELSE [Advance(q1, t, "put_nowait", item)
                    EXCEPT !.last = [Call(q, "put_nowait", "ok") EXCEPT !.item = item]]

\* (a changed half_close: it returns at once only on a CLOSED queue)
half_close_again(q, t) ==
    IF q.state = "CLOSED"
    THEN [Advance(q, t, "half_close", 0) EXCEPT !.last = Call(q, "half_close", "noop")]
    ELSE [q EXCEPT !.state = "HALF_CLOSED",
                   !.stack = Append(@, Fr("half_close", "putters", 1, "half_close", 0, t,
                                          Pending(q), is_empty(q))),
                   !.last = Call(q, "half_close", "running")]

\* Queue.half_close, up to its first loop
half_close(q, t) ==
    IF q.state # "OPENED"
    THEN [Advance(q, t, "half_close", 0) EXCEPT !.last = Call(q, "half_close", "noop")]
    ELSE [q EXCEPT !.state = "HALF_CLOSED",
                   !.stack = Append(@, Fr("half_close", "putters", 1, "half_close", 0, t,
                                          Pending(q), is_empty(q))),
                   !.last = Call(q, "half_close", "running")]

\* (a changed close: `self._c.clear()` is left out)
close_keep_items(q, t) ==
    IF q.state = "CLOSED"
    THEN [Advance(q, t, "close", 0) EXCEPT !.last = Call(q, "close", "noop")]
    ELSE [q EXCEPT !.state = "CLOSED",
                   !.stack = Append(@, Fr("close", "putters", 1, "close", 0, t,
                                          Pending(q), is_empty(q))),
                   !.last = Call(q, "close", "running")]

\* Queue.close, up to its first loop
close(q, t) ==
    IF q.state = "CLOSED"
    THEN [Advance(q, t, "close", 0) EXCEPT !.last = Call(q, "close", "noop")]
    ELSE [q EXCEPT !.state = "CLOSED",
                   !.c = <<>>,
                   !.stack = Append(@, Fr("close", "putters", 1, "close", 0, t,
                                          Pending(q), is_empty(q))),
                   !.last = Call(q, "close", "running")]

\* A call in progress (the innermost frame) returns to its caller.
Return(q, res) ==
    LET f == Top(q)
        q1 == [q EXCEPT !.stack = Pop(@),
                        !.last = [Label("return", f.op, res, "", f.emp0, f.full0, FALSE,
                                        f.pend, f.fired)
                                    EXCEPT !.item = f.ret]]
    IN IF res = "ok" THEN Advance(q1, f.t, f.op, f.ret) ELSE Raised(q1, f.t)

\* (a changed close/half_close: the consumers' loop is left out)
fire_putters_only(q) ==
    LET f == Top(q)
        n == Len(q.stack)
    IN IF f.dirty THEN Return(q, "RuntimeError")
       ELSE IF f.i > Len(q.putters) THEN Return(q, "ok")
       ELSE LET e == q.putters[f.i].ev
                q1 == [q EXCEPT !.stack[n].i = @ + 1, !.last = Step]
            IN IF HasCallback(q, e)
               THEN Resume([q1 EXCEPT !.stack[n].fired = @ \cup {e}], e, "closed", 0)
               ELSE q1

\* (a changed half_close: `if not self.is_empty: return` is left out)
fire_putters_then_getters(q) ==
    LET f == Top(q)
        n == Len(q.stack)
    IN IF f.dirty THEN Return(q, "RuntimeError")
       ELSE IF f.i > Len(q.putters)
       THEN [q EXCEPT !.stack[n].pc = "getters", !.stack[n].i = 1, !.last = Step]
       ELSE LET e == q.putters[f.i].ev
                q1 == [q EXCEPT !.stack[n].i = @ + 1, !.last = Step]
            IN IF HasCallback(q, e)
               THEN Resume([q1 EXCEPT !.stack[n].fired = @ \cup {e}], e, "closed", 0)
               ELSE q1

\* half_close / close: one turn of `for putter, __ in self._putters`, or the
\* end of that loop.
fire_putters(q) ==
    LET f == Top(q)
        n == Len(q.stack)
    IN IF f.dirty THEN Return(q, "RuntimeError")
       ELSE IF f.i > Len(q.putters)
       THEN IF f.k = "half_close" /\ ~is_empty(q)
            THEN Return(q, "ok")
            ELSE [q EXCEPT !.stack[n].pc = "getters", !.stack[n].i = 1, !.last = Step]
       ELSE LET e == q.putters[f.i].ev
                q1 == [q EXCEPT !.stack[n].i = @ + 1, !.last = Step]
            IN IF HasCallback(q, e)
               THEN Resume([q1 EXCEPT !.stack[n].fired = @ \cup {e}], e, "closed", 0)
               ELSE q1

\* (a changed close/half_close: the consumers' loop fires no event)
fire_getters_none(q) ==
    LET f == Top(q)
        n == Len(q.stack)
    IN IF f.dirty THEN Return(q, "RuntimeError")
       ELSE IF f.i > Len(q.getters) THEN Return(q, "ok")
       ELSE [q EXCEPT !.stack[n].i = @ + 1, !.last = Step]

\* (a changed close/half_close: every consumer entry is resumed, with a
\* callback or not)
fire_getters_again(q) ==
    LET f == Top(q)
        n == Len(q.stack)
    IN IF f.dirty THEN Return(q, "RuntimeError")
       ELSE IF f.i > Len(q.getters) THEN Return(q, "ok")
       ELSE LET e == q.getters[f.i]
                q1 == [q EXCEPT !.stack[n].i = @ + 1, !.last = Step]
            IN Resume([q1 EXCEPT !.stack[n].fired = @ \cup {e}], e, "closed", 0)

\* half_close / close: one turn of `for getter in self._getters`, or its end.
fire_getters(q) ==
    LET f == Top(q)
        n == Len(q.stack)
    IN IF f.dirty THEN Return(q, "RuntimeError")
       ELSE IF f.i > Len(q.getters) THEN Return(q, "ok")
       ELSE LET e == q.getters[f.i]
                q1 == [q EXCEPT !.stack[n].i = @ + 1, !.last = Step]
            IN IF HasCallback(q, e)
               THEN Resume([q1 EXCEPT !.stack[n].fired = @ \cup {e}], e, "closed", 0)
               ELSE q1

\* _transfer_items: `finally: self._is_transferring = False`, and the return.
end_transfer(q) == Return([q EXCEPT !.is_transferring = FALSE], "ok")

\* (a changed _transfer_items: putters.pop in place of putters.popleft)
transfer_putters_last(q) ==
    LET n == Len(q.stack)
    IN IF (~is_full(q)) /\ q.putters # <<>>
       THEN LET p == q.putters[Len(q.putters)]
                q1 == [q EXCEPT !.putters = SubSeq(@, 1, Len(@) - 1),
                                !.stack = MarkDirty(@, "putters"),
                                !.last = Step]
            IN IF HasCallback(q, p.ev)
               THEN Resume([q1 EXCEPT !.c = C_put(@, p.item)], p.ev, "ok", 0)
               ELSE q1
       ELSE IF q.getters = <<>> \/ is_empty(q) THEN end_transfer(q)
       ELSE [q EXCEPT !.stack[n].pc = "get", !.last = Step]

\* (a changed _transfer_items: the pass ends after the putters' loop, the
\* consumers are not served)
transfer_putters_only(q) ==
    IF (~is_full(q)) /\ q.putters # <<>>
    THEN LET p == Head(q.putters)
             q1 == [q EXCEPT !.putters = Tail(@),
                             !.stack = MarkDirty(@, "putters"),
                             !.last = Step]
         IN IF HasCallback(q, p.ev)
            THEN Resume([q1 EXCEPT !.c = C_put(@, p.item)], p.ev, "ok", 0)
            ELSE q1
    ELSE end_transfer(q)

\* (a changed _transfer_items: the producer is resumed, its item is not put)
transfer_putters_drop(q) ==
    LET n == Len(q.stack)
    IN IF (~is_full(q)) /\ q.putters # <<>>
       THEN LET p == Head(q.putters)
                q1 == [q EXCEPT !.putters = Tail(@),
                                !.stack = MarkDirty(@, "putters"),
                                !.last = Step]
            IN IF HasCallback(q, p.ev)
               THEN Resume(q1, p.ev, "ok", 0)
               ELSE q1
       ELSE IF q.getters = <<>> \/ is_empty(q) THEN end_transfer(q)
       ELSE [q EXCEPT !.stack[n].pc = "get", !.last = Step]

\* _transfer_items: one turn of the putters' loop, or the test after it.
transfer_putters(q) ==
    LET n == Len(q.stack)
    IN IF (~is_full(q)) /\ q.putters # <<>>
       THEN LET p == Head(q.putters)
                q1 == [q EXCEPT !.putters = Tail(@),
                                !.stack = MarkDirty(@, "putters"),
                                !.last = Step]
            IN IF HasCallback(q, p.ev)
               THEN Resume([q1 EXCEPT !.c = C_put(@, p.item)], p.ev, "ok", 0)
               ELSE q1
       ELSE IF q.getters = <<>> \/ is_empty(q) THEN end_transfer(q)
       ELSE [q EXCEPT !.stack[n].pc = "get", !.last = Step]

\* (a changed _transfer_items: c_get() is called for every consumer entry,
\* with a callback or not)
transfer_getters_blind(q) ==
    LET n == Len(q.stack)
    IN IF (~is_empty(q)) /\ q.getters # <<>>
       THEN LET e == Head(q.getters)
                q1 == [q EXCEPT !.getters = Tail(@),
                                !.c = C_get_rest(@),
                                !.stack = MarkDirty(@, "getters"),
                                !.last = Step]
            IN IF HasCallback(q, e)
               THEN Resume(q1, e, "ok", C_get_item(q.c))
               ELSE q1
       ELSE IF q.putters = <<>> \/ is_full(q) THEN end_transfer(q)
       ELSE [q EXCEPT !.stack[n].pc = "put", !.last = Step]

\* (a changed _transfer_items: a single round, the pass ends after the
\* getters' loop without going back to the putters)
transfer_getters_once(q) ==
    IF (~is_empty(q)) /\ q.getters # <<>>
    THEN LET e == Head(q.getters)
             q1 == [q EXCEPT !.getters = Tail(@),
                             !.stack = MarkDirty(@, "getters"),
                             !.last = Step]
         IN IF HasCallback(q, e)
            THEN Resume([q1 EXCEPT !.c = C_get_rest(@)], e, "ok", C_get_item(q.c))
            ELSE q1
    ELSE end_transfer(q)

\* _transfer_items: one turn of the getters' loop, or the test after it.
transfer_getters(q) ==
    LET n == Len(q.stack)
    IN IF (~is_empty(q)) /\ q.getters # <<>>
       THEN LET e == Head(q.getters)
                q1 == [q EXCEPT !.getters = Tail(@),
                                !.stack = MarkDirty(@, "getters"),
                                !.last = Step]
            IN IF HasCallback(q, e)
               THEN Resume([q1 EXCEPT !.c = C_get_rest(@)], e, "ok", C_get_item(q.c))
               ELSE q1
       ELSE IF q.putters = <<>> \/ is_full(q) THEN end_transfer(q)
       ELSE [q EXCEPT !.stack[n].pc = "put", !.last = Step]

\* The scheduler cancels the task waiting on event e: the event loses its
\* callback, and stays where it is in the queue's deque.
cancel(q, e) == [q EXCEPT !.evt[e].out = "cancelled", !.last = Step]

\* ------------------------------------------------------------ actions
\* Queue.__init__
InitQueue ==
    /\ state = "OPENED"
    /\ c = <<>>
    /\ putters = <<>>
    /\ getters = <<>>
    /\ is_transferring = FALSE
    /\ evt = <<>>
    /\ stack = <<>>
    /\ last = Step

Init ==
    /\ capacity \in Capacities
    /\ order \in Orders
    /\ InitQueue
    /\ scen = "free"
    /\ prog = <<>>
    /\ startorder = <<>>
    /\ nstarted = 0
    /\ pc = <<>>
    /\ log = <<>>
    /\ ins = <<>>

\* The loops in progress take their next turn.
TransferPutters ==
    /\ stack # <<>> /\ Top(Cur).k = "transfer" /\ Top(Cur).pc = "put"
    /\ Set(transfer_putters(Cur))

TransferGetters ==
    /\ stack # <<>> /\ Top(Cur).k = "transfer" /\ Top(Cur).pc = "get"
    /\ Set(transfer_getters(Cur))

FirePutters ==
    /\ stack # <<>> /\ Top(Cur).k \in {"close", "half_close"} /\ Top(Cur).pc = "putters"
    /\ Set(fire_putters(Cur))

FireGetters ==
    /\ stack # <<>> /\ Top(Cur).k \in {"close", "half_close"} /\ Top(Cur).pc = "getters"
    /\ Set(fire_getters(Cur))

Engine == TransferPutters \/ TransferGetters \/ FirePutters \/ FireGetters

\* The free client: code at top level, or the code of a resumed task, calls
\* the queue in any way, starts tasks that wait, cancels waiting tasks.
InClient == IF stack = <<>> THEN TRUE ELSE Top(Cur).k = "task" /\ Top(Cur).t = 0

\* What the bounds let the free client do: no more than MaxEvents waiters,
\* no more than MaxBuf items in an unbounded buffer.
MayRegister == Len(evt) < MaxEvents
MayFill == capacity # NoCap \/ Len(c) < MaxBuf

Get ==
    /\ InClient
    /\ get(Cur, 0).last.res = "suspended" => MayRegister
    /\ Set(get(Cur, 0))

GetNowait ==
    /\ InClient
    /\ Set(get_nowait(Cur, 0))

Put ==
    /\ InClient
    /\ \E item \in Items :
        /\ put(Cur, 0, item).last.res = "suspended" => MayRegister
        /\ put(Cur, 0, item).last.res # "suspended" => MayFill
        /\ Set(put(Cur, 0, item))

PutNowait ==
    /\ InClient
    /\ MayFill
    /\ \E item \in Items : Set(put_nowait(Cur, 0, item))

HalfClose ==
    /\ InClient
    /\ Set(half_close(Cur, 0))

Close ==
    /\ InClient
    /\ Set(close(Cur, 0))

Cancel ==
    /\ InClient
    /\ \E e \in Pending(Cur) : Set(cancel(Cur, e))

\* The code of a resumed task ends or suspends: control is back in the loop
\* that resumed it.
TaskReturn ==
    /\ stack # <<>> /\ Top(Cur).k = "task" /\ Top(Cur).t = 0
    /\ Set([Cur EXCEPT !.stack = Pop(@), !.last = Step])

Next ==
    \/ Get \/ GetNowait \/ Put \/ PutNowait \/ HalfClose \/ Close \/ Cancel
    \/ TaskReturn \/ Engine

Spec == Init /\ [][Next]_vars

\* ------------------------------------------------------- construction
\* Queue(capacity=..., order=...) with any arguments.  Before the call,
\* `capacity` and `order` hold the arguments (the capacity with its type) and
\* the state is "NEW"; a construction that succeeds leaves them as the
\* queue's fields, and the client goes on as in Spec.
CapacityArgs ==
    {[ty |-> "NoneType", v |-> NoCap]}
        \cup {[ty |-> "int", v |-> n] : n \in (0 - 1)..MaxCap}
        \cup {[ty |-> "float", v |-> n] : n \in (0 - 1)..1}
        \cup {[ty |-> "str", v |-> 1]}
OrderArgs == Orders \cup {"bogus"}

\* __init__: `capacity is None`, or an int that is at least 1
CapacityAccepted(a) == a.ty = "NoneType" \/ (a.ty = "int" /\ a.v >= 1)

InitNew ==
    /\ capacity \in CapacityArgs
    /\ order \in OrderArgs
    /\ state = "NEW"
    /\ c = <<>>
    /\ putters = <<>>
    /\ getters = <<>>
    /\ is_transferring = FALSE
    /\ evt = <<>>
    /\ stack = <<>>
    /\ last = Step
    /\ scen = "free"
    /\ prog = <<>>
    /\ startorder = <<>>
    /\ nstarted = 0
    /\ pc = <<>>
    /\ log = <<>>
    /\ ins = <<>>

\* Queue.__init__
Construct ==
    /\ state = "NEW" /\ last.ph = "step"
    /\ IF CapacityAccepted(capacity) /\ ContainerKind(capacity.v, order) # "ValueError"
       THEN /\ capacity' = capacity.v
            /\ state' = "OPENED"
            /\ last' = Label("call", "__init__", "ok", "NEW", TRUE, FALSE, FALSE, {}, {})
       ELSE /\ last' = Label("call", "__init__", "ValueError", "NEW", TRUE, FALSE, FALSE, {}, {})
            /\ UNCHANGED <<capacity, state>>
    /\ UNCHANGED <<order, c, putters, getters, is_transferring, evt, stack,
                   scen, prog, startorder, nstarted, pc, log, ins>>

NextNew == Construct \/ (state # "NEW" /\ Next)

SpecNew == InitNew /\ [][NextNew]_vars

\* The free client of Spec on a queue of capacity 1, putting different items.
InitSlot ==
    /\ capacity = 1
    /\ order \in Orders
    /\ InitQueue
    /\ scen = "slot"
    /\ prog = <<>>
    /\ startorder = <<>>
    /\ nstarted = 0
    /\ pc = <<>>
    /\ log = <<>>
    /\ ins = <<>>

SpecSlot == InitSlot /\ [][Next]_vars

\* ------------------------------------------------- the order of items
\* put_nowait and get_nowait from top level, on a queue of a capacity other
\* than 1 that holds up to MaxOrdLen of the items 1..MaxOrdItem, with at most
\* MaxOrdGets removals.  `ins` keeps the items of the buffer in the order of
\* their insertion; `log` the items removed.
MaxOrdLen == 3
MaxOrdItem == 3
MaxOrdGets == 3
OrdCapacities == (2..MaxOrdLen) \cup {NoCap}

\* The item that a discipline selects among the items xs, listed in the order
\* of their insertion, and the items it leaves.
Min(xs) == CHOOSE n \in 1..Len(xs) : \A k \in 1..Len(xs) : xs[n] <= xs[k]
Without(xs, n) == SubSeq(xs, 1, n - 1) \o SubSeq(xs, n + 1, Len(xs))
SelectedAt(ord, xs) ==
    IF ord = "lifo" THEN Len(xs) ELSE IF ord = "fifo" THEN 1 ELSE Min(xs)

InitOrder ==
    /\ capacity \in OrdCapacities
    /\ order \in Orders
    /\ InitQueue
    /\ scen = "order"
    /\ prog = <<>>
    /\ startorder = <<>>
    /\ nstarted = 0
    /\ pc = <<>>
    /\ log = <<>>
    /\ ins = <<>>

PutNowaitOrder ==
    /\ Len(c) < MaxOrdLen
    /\ \E item \in 1..MaxOrdItem :
        LET q == put_nowait(Cur, 0, item)
        IN /\ SetQueue(q)
           /\ ins' = IF q.last.res = "ok" THEN Append(ins, item) ELSE ins
    /\ UNCHANGED nstarted

GetNowaitOrder ==
    /\ Len(log) < MaxOrdGets
    /\ LET q == get_nowait(Cur, 0)
       IN /\ SetQueue([q EXCEPT !.log = IF q.last.res = "ok"
                                        THEN Append(@, q.last.item) ELSE @])
          /\ ins' = IF q.last.res = "ok" THEN Without(ins, SelectedAt(order, ins)) ELSE ins
    /\ UNCHANGED nstarted

NextOrder == PutNowaitOrder \/ GetNowaitOrder

SpecOrder == InitOrder /\ [][NextOrder]_vars

\* The free client on a queue that stays OPENED, putting different items.
InitHandoff ==
    /\ capacity \in Capacities
    /\ order \in Orders
    /\ InitQueue
    /\ scen = "handoff"
    /\ prog = <<>>
    /\ startorder = <<>>
    /\ nstarted = 0
    /\ pc = <<>>
    /\ log = <<>>
    /\ ins = <<>>

NextHandoff ==
    \/ Get \/ GetNowait \/ Put \/ PutNowait \/ Cancel
    \/ TaskReturn \/ TransferPutters \/ TransferGetters

SpecHandoff == InitHandoff /\ [][NextHandoff]_vars

\* ------------------------------------------------- scripted scenarios
\* Tasks that each run a fixed sequence of put() and get() calls, started one
\* after the other with asyncgui.start(): a task runs until it suspends or
\* ends, and goes on when its waiter is resumed.
Producer(n, item) == [i \in 1..n |-> [op |-> "put", item |-> item]]
Consumer(n) == [i \in 1..n |-> [op |-> "get", item |-> 0]]
Perms(n) == {f \in [1..n -> 1..n] : \A i, j \in 1..n : f[i] = f[j] => i = j}

\* test_quirk: items 'A', 'B', 'C' are 1, 2, 3.
QuirkProg ==
    << <<[op |-> "put", item |-> 1], [op |-> "put", item |-> 2], [op |-> "get", item |-> 0],
         [op |-> "put", item |-> 3], [op |-> "get", item |-> 0]>>,
       Consumer(1) >>

QuirkScenarios ==
    {[scen |-> "quirk", capacity |-> cap, order |-> "fifo", prog |-> QuirkProg, start |-> st] :
        cap \in Capacities, st \in Perms(2)}

\* test_various_permutations: producers of 2 and 5 items, consumers of 2, 4
\* and 1 items; a producer of n items puts the item n.
TestTasks == <<Producer(2, 2), Producer(5, 5), Consumer(2), Consumer(4), Consumer(1)>>

\* the same with two producers and two consumers of up to MaxCount items each
MaxCount == 2
SmallTasks ==
    {<<Producer(a, 1), Producer(b, 2), Consumer(x), Consumer(y)>> :
        <<a, b, x, y>> \in {v \in (0..MaxCount) \X (0..MaxCount) \X (0..MaxCount) \X (0..MaxCount) :
                                v[1] + v[2] = v[3] + v[4]}}

PermScenarios ==
    {[scen |-> "perm", capacity |-> cap, order |-> "fifo", prog |-> pr, start |-> st] :
        cap \in Capacities, pr \in {TestTasks}, st \in Perms(5)}
    \cup
    {[scen |-> "perm", capacity |-> cap, order |-> "fifo", prog |-> pr, start |-> st] :
        cap \in Capacities, pr \in SmallTasks, st \in Perms(4)}

\* test_async_for's producer and a consumer of as many items: one producer
\* putting 1, 2, .. n and one consumer, on a fifo queue.
MaxFifoCap == 4
MaxFifoItems == 4
FifoScenarios ==
    {[scen |-> "fifo", capacity |-> cap, order |-> "fifo",
      prog |-> <<[i \in 1..n |-> [op |-> "put", item |-> i]], Consumer(n)>>, start |-> st] :
        cap \in (1..MaxFifoCap) \cup {NoCap}, n \in 1..MaxFifoItems, st \in Perms(2)}

\* test_async_for: a consumer in `async for`, a producer of 1, 2, .. n, and
\* close() or half_close() called from top level; in any order of starting,
\* and for every order of the queue.
MaxIterItems == 3
IterScenarios ==
    {[scen |-> "iter", capacity |-> cap, order |-> ord,
      prog |-> << <<[op |-> "iter", item |-> 0]>>,
                  [i \in 1..n |-> [op |-> "put", item |-> i]],
                  <<[op |-> cl, item |-> 0]>> >>,
      start |-> st] :
        cap \in Capacities, ord \in Orders, n \in 0..MaxIterItems,
        cl \in {"close", "half_close"}, st \in Perms(3)}

InitScript ==
    /\ \E sc \in QuirkScenarios \cup PermScenarios \cup FifoScenarios \cup IterScenarios :
        /\ scen = sc.scen
        /\ capacity = sc.capacity
        /\ order = sc.order
        /\ prog = sc.prog
        /\ startorder = sc.start
    /\ InitQueue
    /\ nstarted = 0
    /\ pc = [t \in 1..Len(prog) |-> 1]
    /\ log = <<>>
    /\ ins = <<>>

\* asyncgui.start(task): the next task runs, from top level.
Start ==
    /\ stack = <<>>
    /\ nstarted < Len(startorder)
    /\ SetQueue([Cur EXCEPT !.stack = <<TaskFrame(startorder[nstarted + 1])>>, !.last = Step])
    /\ nstarted' = nstarted + 1
    /\ UNCHANGED ins

InTask == IF stack = <<>> THEN FALSE ELSE Top(Cur).k = "task" /\ Top(Cur).t > 0

\* The running task calls its next operation.
TaskStep ==
    /\ InTask
    /\ LET t == Top(Cur).t
       IN /\ pc[t] <= Len(prog[t])
          /\ LET o == prog[t][pc[t]]
             IN IF o.op = "put" THEN Set(put(Cur, t, o.item))
                ELSE IF o.op = "close" THEN Set(close(Cur, t))
                ELSE IF o.op = "half_close" THEN Set(half_close(Cur, t))
                ELSE Set(get(Cur, t))

\* The running task ends.
TaskEnd ==
    /\ InTask
    /\ pc[Top(Cur).t] > Len(prog[Top(Cur).t])
    /\ Set([Cur EXCEPT !.stack = Pop(@), !.last = Step])

NextScript == Start \/ TaskStep \/ TaskEnd \/ Engine

\* Everything runs synchronously in one flow of control: a step that can be
\* taken is taken.
SpecScript == InitScript /\ [][NextScript]_vars /\ WF_vars(NextScript)

\* ---------------------------------------------------------- properties
ReturnOf(op) == last.ph = "return" /\ last.op = op
CallOf(ops) == last.ph = "call" /\ last.op \in ops
Kind(k) == {e \in 1..Len(evt) : evt[e].kind = k}
Nested == \E n \in 1..Len(stack) : stack[n].k = "transfer"

\* C1: with a capacity set, the buffer never holds more than capacity items,
\* in any state, also in the middle of a transfer pass or of a re-entrant call.
C1_BufferWithinCapacity == capacity # NoCap => Len(c) <= capacity

\* a full buffer in a call made by a waiter that a transfer pass resumed
C1_Witness ==
    /\ capacity # NoCap /\ Len(c) = capacity
    /\ is_transferring
    /\ last.ph = "call" /\ last.op = "put" /\ last.res = "suspended" /\ last.full0

\* C2 as claimed: when close() returns, every waiter that was pending when it
\* was called has been resumed with Closed.
C2_ClosePendingAllClosed ==
    ReturnOf("close") => \A e \in last.pend : evt[e].out = "closed"

\* C2, amended: when close() returns, every waiter that was pending when it
\* was called has been resumed with Closed by this close(), unless it was
\* cancelled before close() reached it; and a waiter resumed with Closed is
\* never resumed again.
C2_ClosePendingClosedOrCancelled ==
    /\ [](ReturnOf("close") =>
            /\ last.res = "ok"
            /\ \A e \in last.pend : evt[e].out \in {"closed", "cancelled"}
            /\ \A e \in last.pend : evt[e].out = "closed" <=> e \in last.fired)
    /\ [][\A e \in 1..Len(evt) : evt[e].out = "closed" => evt'[e].out = "closed"]_vars

\* close() called by a waiter that a transfer pass resumed has returned,
\* having resumed a producer and a consumer with Closed
C2_Witness ==
    /\ ReturnOf("close") /\ is_transferring
    /\ \E e \in last.pend \cap Kind("put") : evt[e].out = "closed"
    /\ \E e \in last.pend \cap Kind("get") : evt[e].out = "closed"

\* C3: when half_close() returns, every producer waiter that was pending when
\* it was called (and was not cancelled since) has been resumed with Closed:
\* none was resumed with success, which is to say none had its item placed in
\* the buffer, and none is still waiting.
C3_HalfCloseFailsProducers ==
    ReturnOf("half_close") =>
        \A e \in last.pend \cap Kind("put") : evt[e].out \in {"closed", "cancelled"}

\* C4 as claimed: half_close() called with an empty buffer has resumed every
\* pending consumer waiter with Closed when it returns; called with a
\* non-empty buffer it resumes no consumer waiter itself.
C4_HalfCloseConsumers ==
    ReturnOf("half_close") =>
        /\ last.emp0 => \A e \in last.pend \cap Kind("get") : evt[e].out = "closed"
        /\ ~last.emp0 => last.fired \cap Kind("get") = {}

\* C4, amended: half_close() called with an empty buffer has resumed with
\* Closed, when it returns, every consumer waiter that was pending at the call
\* and was not cancelled before half_close() reached it; and half_close()
\* resumes consumer waiters itself only while the buffer is empty, as it is
\* found after the producer waiters were failed (one of them may have taken
\* the last item): with a buffer non-empty then, it resumes none.
C4_HalfCloseConsumersWhenEmpty ==
    /\ ReturnOf("half_close") =>
        /\ last.emp0 => \A e \in last.pend \cap Kind("get") :
                            evt[e].out \in {"closed", "cancelled"}
        /\ last.fired \cap Kind("get") # {} => c = <<>>
        /\ c # <<>> => last.fired \cap Kind("get") = {}
    /\ \A n \in 1..Len(stack) :
        stack[n].k = "half_close" /\ stack[n].pc = "getters" => c = <<>>

\* half_close(), called with an empty buffer and two consumers waiting, has
\* returned having resumed both
C4_Witness ==
    /\ ReturnOf("half_close") /\ last.emp0
    /\ Cardinality(last.pend \cap Kind("get")) >= 2
    /\ last.fired = last.pend

Illegal(op, st0, emp0) ==
    IF op \in {"put", "put_nowait"} THEN st0 \in {"HALF_CLOSED", "CLOSED"}
    ELSE st0 = "CLOSED" \/ (st0 = "HALF_CLOSED" /\ emp0)

\* C5: put and put_nowait fail with Closed exactly when the state is
\* HALF_CLOSED or CLOSED; get and get_nowait fail with Closed exactly when the
\* state is CLOSED, or HALF_CLOSED with an empty buffer; so Closed goes before
\* WouldBlock; and a call that fails with Closed leaves the buffer, both
\* waiter lists and the state as they were.
C5_ClosedByState ==
    CallOf({"put", "put_nowait", "get", "get_nowait"}) =>
        /\ Illegal(last.op, last.st0, last.emp0) <=> last.res = "Closed"
        /\ last.res = "Closed" => last.same /\ state = last.st0

\* put_nowait on a full half-closed queue, or get_nowait on an empty one,
\* has failed with Closed
C5_Witness ==
    /\ CallOf({"put_nowait", "get_nowait"}) /\ last.res = "Closed"
    /\ last.st0 = "HALF_CLOSED"
    /\ IF last.op = "put_nowait" THEN last.full0 ELSE last.emp0

C7_WouldBlockChangesNothing ==
    /\ CallOf({"get_nowait"}) /\ last.st0 = "OPENED" /\ last.emp0 /\ ~last.tr0 =>
        last.res = "WouldBlock"
    /\ CallOf({"put_nowait"}) /\ last.st0 = "OPENED" /\ last.full0 /\ ~last.tr0 =>
        last.res = "WouldBlock"
    /\ CallOf({"put_nowait", "get_nowait"}) /\ last.res = "WouldBlock" =>
        last.same /\ state = "OPENED"

\* put_nowait has failed with WouldBlock on a full queue, no pass in progress
C7_Witness ==
    /\ CallOf({"put_nowait"}) /\ last.res = "WouldBlock"
    /\ last.full0 /\ ~last.tr0 /\ Len(c) = capacity

\* All tasks were started and control is back at top level.
Quiet == stack = <<>> /\ nstarted = Len(startorder)
Completed == Quiet /\ \A t \in 1..Len(prog) : pc[t] = ProgEnd(t)
Count(seq, x) == Cardinality({i \in 1..Len(seq) : seq[i] = x})
Puts == {<<t, i>> \in (1..Len(prog)) \X (1..5) : i <= Len(prog[t]) /\ prog[t][i].op = "put"}
Produced(x) == Cardinality({p \in Puts : prog[p[1]][p[2]].item = x})

\* C8: the quirk scenario on a capacity-1 queue, alpha started before beta:
\* both tasks run to completion and the log is then B, C, A.
C8_QuirkLog ==
    (scen = "quirk" /\ capacity = 1 /\ startorder[1] = 1)
        => <>[](Completed /\ log = <<2, 3, 1>>)

C8_Witness ==
    /\ scen = "quirk" /\ capacity = 1 /\ startorder[1] = 1
    /\ Completed /\ Len(log) = 3

\* C9: producers and consumers with as many puts as gets, started in any
\* order: every task runs to completion, the buffer ends empty and the items
\* got are the items put, as multisets.
C9_AllComplete ==
    scen = "perm"
        => <>[](Completed /\ c = <<>> /\ \A x \in 0..5 : Count(log, x) = Produced(x))

C9_Witness ==
    /\ scen = "perm" /\ Len(prog) = 5 /\ capacity = 1
    /\ Completed /\ Len(log) = 7

\* C10: one producer and one consumer on a fifo queue of any capacity: the
\* consumer gets the items in the order in which the producer put them (the
\* log is at every moment the sequence 1, 2, .. of its length), whichever
\* task was started first.
C10_FifoOrder ==
    scen = "fifo" => log = [i \in 1..Len(log) |-> i]

C10_Witness ==
    /\ scen = "fifo" /\ capacity = 2 /\ startorder[1] = 1
    /\ Completed /\ Len(log) = MaxFifoItems

\* C13: the state only moves OPENED -> HALF_CLOSED, OPENED -> CLOSED or
\* HALF_CLOSED -> CLOSED; half_close() on a queue that is not OPENED and
\* close() on a CLOSED queue return at once and change nothing: state, buffer,
\* waiter lists, waiters' outcomes, calls in progress.
C13_StateForwardNoops ==
    /\ [][state' # state =>
            <<state, state'>> \in {<<"OPENED", "HALF_CLOSED">>, <<"OPENED", "CLOSED">>,
                                   <<"HALF_CLOSED", "CLOSED">>}]_vars
    /\ [][(last'.ph = "call" /\ ((last'.op = "half_close" /\ state # "OPENED")
                                  \/ (last'.op = "close" /\ state = "CLOSED")))
            => /\ last'.res = "noop"
               /\ UNCHANGED <<state, c, putters, getters, evt, is_transferring, stack>>]_vars

\* half_close() was called on a HALF_CLOSED queue that holds items and has
\* waiters pending
C13_Witness ==
    /\ CallOf({"half_close"}) /\ last.res = "noop" /\ last.st0 = "HALF_CLOSED"
    /\ c # <<>> /\ Pending(Cur) # {}

\* C15: a waiter that was cancelled is never resumed (its outcome stays
\* "cancelled"); when a transfer pass pops the entry of a cancelled producer
\* or of a cancelled consumer, the buffer stays as it is: the producer's item
\* is not placed in it, and no item is taken from it.
C15_CancelledNeverServed ==
    /\ [][\A e \in 1..Len(evt) : evt[e].out = "cancelled" => evt'[e].out = "cancelled"]_vars
    /\ [][(putters # <<>> /\ putters' = Tail(putters)
             /\ evt[Head(putters).ev].out = "cancelled") => c' = c /\ evt' = evt]_vars
    /\ [][(getters # <<>> /\ getters' = Tail(getters)
             /\ evt[Head(getters)].out = "cancelled") => c' = c /\ evt' = evt]_vars

\* a pass has popped the entry of a cancelled consumer, and the buffer still
\* holds an item
C15_Witness ==
    /\ is_transferring /\ c # <<>> /\ last.ph = "step"
    /\ \E e \in Kind("get") :
        /\ evt[e].out = "cancelled"
        /\ \A n \in 1..Len(getters) : getters[n] # e

\* C19: _transfer_items is never entered while a pass is in progress (its
\* assertion never fails), and _is_transferring is true exactly while a pass
\* is among the calls in progress.
C19_OnePassAtATime ==
    /\ last.res # "AssertionError"
    /\ is_transferring <=> Nested
    /\ Cardinality({n \in 1..Len(stack) : stack[n].k = "transfer"}) <= 1

\* get_nowait, called during a pass with producers listed, has taken an item
\* without starting a pass
C19_Witness ==
    /\ CallOf({"get_nowait"}) /\ last.res = "ok" /\ last.tr0
    /\ putters # <<>> /\ is_transferring

\* C20: a CLOSED queue has an empty buffer, in every state.
C20_ClosedIsEmpty == state = "CLOSED" => c = <<>>

\* close() was called during a pass, and the pass goes on over the entries
\* that are left
C20_Witness ==
    /\ state = "CLOSED" /\ stack # <<>> /\ Top(Cur).k = "transfer"
    /\ last.ph = "step" /\ getters # <<>>

\* C16: waiters of a side are served in the order in which they registered:
\* when a consumer is resumed with an item, or a producer is resumed with
\* success, no waiter of its side that registered before it is still
\* pending (with no cancellation: all of them were resumed before it); and
\* the producer's item goes into the buffer at that moment.
C16_RegistrationOrder ==
    [][\A e \in 1..Len(evt) :
          (evt[e].out = "pending" /\ evt'[e].out = "ok") =>
              /\ \A d \in 1..(e - 1) : evt[d].kind = evt[e].kind => evt[d].out # "pending"
              /\ evt[e].kind = "put" =>
                    /\ putters # <<>> /\ Head(putters).ev = e
                    /\ c' = C_put(c, Head(putters).item)
              /\ evt[e].kind = "get" =>
                    /\ getters # <<>> /\ Head(getters) = e
                    /\ c' = C_get_rest(c)]_vars

\* with no waiter cancelled, two producers that waited have been resumed with
\* success
C16_Witness ==
    /\ \A e \in 1..Len(evt) : evt[e].out # "cancelled"
    /\ \E d, e \in Kind("put") : d < e /\ evt[d].out = "ok" /\ evt[e].out = "ok"

\* C14: on an OPENED queue with no pass in progress,
\* (a) put(item) onto an empty buffer while a consumer with a callback waits
\* does not suspend (it runs a pass), and when it returns the earliest such
\* consumer has been resumed with that item;
\* (b) get() from a full buffer while a producer with a callback waits does
\* not suspend, takes the item its discipline selects, and when it returns
\* the earliest such producer has been resumed with success; a producer's
\* item is in the buffer at the moment the producer is resumed.
C14_HandOff ==
    /\ [][(/\ last'.ph = "call" /\ last'.op = "put"
            /\ state = "OPENED" /\ ~is_transferring
            /\ c = <<>> /\ Earliest(Cur, "get") # {})
           => last'.res = "running"]_vars
    /\ [][(/\ last'.ph = "return" /\ last'.op = "put"
            /\ Top(Cur).emp0 /\ Top(Cur).pend # {})
           => /\ last'.res = "ok"
              /\ \A g \in Top(Cur).pend :
                    evt'[g].out = "ok" /\ evt'[g].item = Top(Cur).ret]_vars
    /\ [][(/\ last'.ph = "call" /\ last'.op = "get"
            /\ state = "OPENED" /\ ~is_transferring
            /\ is_full(Cur) /\ Earliest(Cur, "put") # {})
           => /\ last'.res = "running"
              /\ stack'[Len(stack')].ret = C_get_item(c)]_vars
    /\ [][(/\ last'.ph = "return" /\ last'.op = "get"
            /\ Top(Cur).full0 /\ Top(Cur).pend # {})
           => /\ last'.res = "ok"
              /\ \A e \in Top(Cur).pend : evt'[e].out = "ok"]_vars
    /\ [][\A e \in 1..Len(evt) :
            (evt[e].kind = "put" /\ evt[e].out = "pending" /\ evt'[e].out = "ok")
                => \E n \in 1..Len(c') : c'[n] = Head(putters).item]_vars

\* put(2) onto an empty buffer has returned: the second consumer got the 2,
\* after the pass skipped the first, which was cancelled
C14_Witness ==
    /\ scen = "handoff"
    /\ ReturnOf("put") /\ last.res = "ok" /\ last.emp0
    /\ \E g \in last.pend :
        /\ evt[g].out = "ok" /\ evt[g].item = 2
        /\ \E d \in 1..(g - 1) : evt[d].kind = "get" /\ evt[d].out = "cancelled"

\* C12: construction fails with ValueError exactly when the capacity is not
\* None or a positive integer, or the order is not one of the three names,
\* whatever the capacity; a construction that succeeds gives an OPENED queue
\* with an empty buffer and no waiters.
C12_ConstructorValidates ==
    /\ (last.op = "__init__" /\ last.res = "ValueError") =>
            (state = "NEW" /\ ~(CapacityAccepted(capacity) /\ order \in Orders))
    /\ state # "NEW" => (capacity \in Capacities /\ order \in Orders)
    /\ (last.op = "__init__" /\ last.res = "ok") =>
            (state = "OPENED" /\ c = <<>> /\ putters = <<>> /\ getters = <<>>)

\* C17: with a capacity other than 1, every removal returns the item that the
\* order selects among the items in the buffer: the last inserted for lifo,
\* the first inserted for fifo, a least one for small-first; the buffer holds
\* the same items as were inserted and not removed.  So items that are put
\* and then all removed come out in reverse order of insertion for lifo, and
\* from small to large for small-first.
C17_RemovalByDiscipline ==
    /\ [][(last'.op = "get_nowait" /\ last'.res = "ok")
            => last'.item = ins[SelectedAt(order, ins)]]_vars
    /\ [](\A x \in 1..MaxOrdItem : Count(c, x) = Count(ins, x))
    /\ []((order = "small-first" /\ last.op = "get_nowait" /\ last.res = "ok")
            => \A n \in 1..Len(c) : last.item <= c[n])

\* three items put as 2, 3, 1 into a small-first queue have come out as
\* 1, 2, 3
C17_Witness ==
    /\ order = "small-first" /\ log = <<1, 2, 3>> /\ c = <<>>
    /\ last.op = "get_nowait" /\ last.res = "ok" /\ last.item = 3

\* C18: with capacity 1 the queue is the same for the three orders: the same
\* container is made for each, and in every state that a client can reach
\* (put, put_nowait, get, get_nowait, half_close, close, cancellation) that
\* container gives the same item and leaves the same buffer as the container
\* of every order would, for a get and for a put of any item.  The order has
\* no other part in the queue's operations.
C18_SingleSlotSameForAllOrders ==
    capacity = 1 =>
        /\ \A o \in Orders : ContainerKind(capacity, o) = ContainerKind(capacity, order)
        /\ \A k \in {"list", "deque", "heap"} :
            /\ c # <<>> => /\ ContainerGetItem(k, c) = C_get_item(c)
                           /\ ContainerGetRest(k, c) = C_get_rest(c)
            /\ ~is_full(Cur) => \A x \in Items : ContainerPut(k, capacity, c, x) = C_put(c, x)

\* a small-first queue of capacity 1: a pass has put a waiting producer's 1
\* in the buffer after a get took the 2
C18_Witness ==
    /\ capacity = 1 /\ order = "small-first"
    /\ ReturnOf("get") /\ last.res = "ok" /\ last.item = 2 /\ c = <<1>>

\* C11: a task in `async for item in queue`, with a producer and a close() or
\* half_close(): its loop ends normally (no exception ends the task), in
\* particular when it waits for an item at the time of the close() or of a
\* half_close() on an empty buffer; and the items it was given are items the
\* producer has put (or is putting: a put() hands its item over before it
\* returns), each once.
C11_IterationEnds ==
    scen = "iter" =>
        /\ <>[](Quiet /\ pc[1] = ProgEnd(1))
        /\ [](pc[1] <= ProgEnd(1))
        /\ [](\A i \in 1..Len(log) :
                /\ log[i] \in 1..Len(prog[2]) /\ log[i] <= pc[2]
                /\ \A j \in 1..Len(log) : log[i] = log[j] => i = j)

\* the consumer was given all the producer's items, waited again, and was
\* resumed with Closed by half_close(): its loop has ended
C11_Witness ==
    /\ scen = "iter" /\ startorder = <<1, 2, 3>> /\ prog[3][1].op = "half_close"
    /\ Quiet /\ pc[1] = ProgEnd(1) /\ Len(log) = MaxIterItems
    /\ \E e \in Kind("get") : evt[e].task = 1 /\ evt[e].out = "closed"

\* C21: no consumer is left waiting on a half-closed queue that has drained:
\* with the state HALF_CLOSED, the buffer empty, no pass in progress and no
\* half_close() still in its loops, no consumer with a callback is waiting.
C21_NoConsumerLeftOnDrained ==
    (/\ state = "HALF_CLOSED" /\ c = <<>> /\ ~is_transferring
     /\ \A n \in 1..Len(stack) : stack[n].k # "half_close")
        => Earliest(Cur, "get") = {}

\* C22: with the state OPENED and no pass in progress, a producer with a
\* callback waits only if the buffer is full, and a consumer with a callback
\* waits only if the buffer is empty.
C22_NoLostWakeUp ==
    (state = "OPENED" /\ ~is_transferring) =>
        /\ Earliest(Cur, "put") # {} => is_full(Cur)
        /\ Earliest(Cur, "get") # {} => is_empty(Cur)

\* a pass has ended in which a resumed waiter called put_nowait or
\* get_nowait: a producer still waits, on a full buffer
C22_Witness ==
    /\ state = "OPENED" /\ ~is_transferring /\ stack = <<>>
    /\ last.ph = "return" /\ Earliest(Cur, "put") # {} /\ is_full(Cur)
    /\ \E e \in Kind("get") : evt[e].out = "ok"

\* The items that a step puts in the buffer: the item of a put() or
\* put_nowait() call that places it, the item of a waiting producer that is
\* resumed with success.
PutIn(x) ==
    (IF /\ last'.ph = "call" /\ last'.op \in {"put", "put_nowait"}
        /\ last'.res \in {"ok", "running"} /\ last'.item = x
     THEN 1 ELSE 0)
    + Cardinality({e \in Kind("put") :
            /\ evt[e].out = "pending" /\ evt'[e].out = "ok"
            /\ \E i \in 1..Len(putters) : putters[i].ev = e /\ putters[i].item = x})

\* The items that a step delivers: the item that a get() or get_nowait() call
\* takes, the item that a waiting consumer is resumed with.
Delivered(x) ==
    (IF /\ last'.ph = "call" /\ last'.op \in {"get", "get_nowait"}
        /\ last'.res \in {"ok", "running"} /\ last'.item = x
     THEN 1 ELSE 0)
    + Cardinality({e \in Kind("get") :
            /\ evt[e].out = "pending" /\ evt'[e].out = "ok" /\ evt'[e].item = x})

\* The items that a step discards: the buffer, in the step in which close()
\* closes the queue.
Discarded(x) ==
    IF state # "CLOSED" /\ state' = "CLOSED" THEN Count(c, x) ELSE 0

\* C23: item conservation.  In every step, and for every item value, the
\* buffer gains the items that the step puts (a put counts from the moment
\* put()/put_nowait() places the item, or the waiting producer is resumed
\* with success) and loses the items that the step delivers to a consumer or
\* that close() discards, and nothing else: so every item put is in the
\* buffer, or was delivered to one consumer, or was discarded by close(); no
\* item is delivered twice, none is delivered that was not put, and none
\* disappears without close().
C23_ItemConservation ==
    [][\A x \in Items :
          Count(c', x) = Count(c, x) + PutIn(x) - Delivered(x) - Discarded(x)]_vars

\* a waiting producer's item was put by a pass, a waiting consumer was
\* handed an item by a pass, and close() has discarded a buffer that held
\* items
C23_Witness ==
    /\ ReturnOf("close") /\ ~last.emp0 /\ c = <<>>
    /\ \E p \in Kind("put") : evt[p].out = "ok"
    /\ \E g \in Kind("get") : evt[g].out = "ok" /\ evt[g].item \in Items

\* C24: every waiter is resumed at most once: the callback of an event is
\* invoked once if the waiter got an outcome (success or an item, or
\* Closed), and never otherwise; an outcome, once given, stays.
C24_ResumedAtMostOnce ==
    \A e \in 1..Len(evt) :
        /\ evt[e].n <= 1
        /\ evt[e].n = 1 <=> evt[e].out \in {"ok", "closed"}

\* close() has returned after its loops went over a producer entry and a
\* consumer entry that half_close() had resumed with Closed and that are
\* still in the waiter lists: close() resumed neither again
C24_Witness ==
    /\ ReturnOf("close") /\ last.res = "ok"
    /\ \E i \in 1..Len(putters) :
          evt[putters[i].ev].out = "closed" /\ putters[i].ev \notin last.fired
    /\ \E i \in 1..Len(getters) :
          evt[getters[i]].out = "closed" /\ getters[i] \notin last.fired

====
